---- MODULE Spec2Model ----
(***************************************************************************)
(* conductor/voice_transcriber.py: the availability check is_available and *)
(* the coroutine transcribe_voice, run as tasks of one event loop.  A task *)
(* gives up control only at its two awaits (bot.get_file and               *)
(* bot.download_file); the code between two awaits is one step.            *)
(***************************************************************************)
EXTENDS Integers, Sequences, FiniteSets, TLC

\* Number of file names tempfile.mktemp can draw from.
NumNames == 2
\* Longest transcript text the transcription service returns.
MaxLen == 3

\* The transcribe_voice tasks in flight in the event loop: two concurrent calls.
Calls == {"A", "B"}

\* Python's None, kept apart from every str (a str is a sequence of characters).
None == <<"None">>

\* The characters of a transcript: whitespace and a letter.
Whitespace == {" "}
Chars == Whitespace \cup {"a"}
Texts == UNION {[1 .. n -> Chars] : n \in 0 .. MaxLen}

\* dict.get(key, default)
get(d, key, default) == IF key \in DOMAIN d THEN d[key] ELSE default

\* The empty dict {}.
EmptyDict == [k \in {} |-> None]

\* Truth value of a str-or-None: "" and None are false.
Truthy(s) == s # None /\ s # <<>>

\* The configurations: with or without a "voice" section, which holds any
\* subset of the fields enabled and openai_api_key.
VoiceCfgs ==
    UNION {{[k \in d |-> IF k = "enabled" THEN f[1] ELSE f[2]] :
                f \in BOOLEAN \X {<<>>, <<"a">>}} :
           d \in SUBSET {"enabled", "openai_api_key"}}
Configs == {EmptyDict} \cup {[voice |-> v] : v \in VoiceCfgs}

VARIABLES
    config,        \* the configuration mapping the caller passes
    HAS_OPENAI,    \* whether "from openai import OpenAI" succeeded at import
    avail,         \* the last is_available call: its return value and warnings
    fs,            \* the paths that exist in the temporary directory
    pc,            \* where each transcribe_voice task stands
    tmp_path,      \* each task's local tmp_path
    result,        \* the value each task returned
    transcript,    \* transcript.text as the service returned it to each task
    failure,       \* the step whose exception ended each task's try body
    log_error,     \* the log.error entries each task emitted (their causes)
    bot_calls,     \* how many bot methods each task called
    writes,        \* how many files the bot wrote for each task
    whisper_calls  \* how many transcription requests each task sent

vars == <<config, HAS_OPENAI, avail, fs, pc, tmp_path, result, transcript,
          failure, log_error, bot_calls, writes, whisper_calls>>

Ended == {"returned", "raised"}

----------------------------------------------------------------------------
\* is_available

\* Faulty variant of is_available: the API key is never looked at.
is_available_NoKeyCheck(cfg, has_openai) ==
    LET voice_cfg == get(cfg, "voice", EmptyDict) IN
    IF ~ get(voice_cfg, "enabled", FALSE)
    THEN [ret |-> FALSE, warnings |-> <<>>]
    ELSE IF ~ has_openai
    THEN [ret |-> FALSE, warnings |-> <<"pip3 install openai">>]
    ELSE [ret |-> TRUE, warnings |-> <<>>]

\* Faulty variant of is_available: the API key is checked before the package.
is_available_KeyFirst(cfg, has_openai) ==
    LET voice_cfg == get(cfg, "voice", EmptyDict) IN
    IF ~ get(voice_cfg, "enabled", FALSE)
    THEN [ret |-> FALSE, warnings |-> <<>>]
    ELSE IF ~ Truthy(get(voice_cfg, "openai_api_key", None))
    THEN [ret |-> FALSE,
          warnings |-> <<"conductor.telegram.voice.openai_api_key not set">>]
    ELSE IF ~ has_openai
    THEN [ret |-> FALSE, warnings |-> <<"pip3 install openai">>]
    ELSE [ret |-> TRUE, warnings |-> <<>>]

is_available(cfg, has_openai) ==
    LET voice_cfg == get(cfg, "voice", EmptyDict) IN
    IF ~ get(voice_cfg, "enabled", FALSE)
    THEN [ret |-> FALSE, warnings |-> <<>>]
    ELSE IF ~ has_openai
    THEN [ret |-> FALSE, warnings |-> <<"pip3 install openai">>]
    ELSE IF ~ Truthy(get(voice_cfg, "openai_api_key", None))
    THEN [ret |-> FALSE,
          warnings |-> <<"conductor.telegram.voice.openai_api_key not set">>]
    ELSE [ret |-> TRUE, warnings |-> <<>>]

IsAvailable ==
    /\ ~ avail.called
    /\ avail' = [called |-> TRUE] @@ is_available(config, HAS_OPENAI)
    /\ UNCHANGED <<config, HAS_OPENAI, fs, pc, tmp_path, result, transcript,
                   failure, log_error, bot_calls, writes, whisper_calls>>

----------------------------------------------------------------------------
\* transcribe_voice

\* api_key = voice_cfg.get("openai_api_key", "")
api_key(cfg) == get(get(cfg, "voice", EmptyDict), "openai_api_key", <<>>)

\* Faulty variant of the key test: "if api_key is None" lets "" through.
KeyMissing_IsNone(key) == key = None

\* if not api_key: return None
KeyMissing(key) == ~ Truthy(key)

\* Faulty variant of the path: mktemp called without suffix=".ogg".
Path_NoSuffix(n) == <<"tmp", n, "">>

\* The path of the n-th candidate name, with the suffix mktemp was given.
Path(n) == <<"tmp", n, ".ogg">>

\* tempfile.mktemp: any candidate name that does not exist right now.
mktemp(fsys) == {Path(n) : n \in 1 .. NumNames} \ fsys

\* transcript.text.strip()
RECURSIVE lstrip(_)
lstrip(s) == IF s # <<>> /\ Head(s) \in Whitespace THEN lstrip(Tail(s)) ELSE s
RECURSIVE rstrip(_)
rstrip(s) ==
    IF s # <<>> /\ s[Len(s)] \in Whitespace
    THEN rstrip(SubSeq(s, 1, Len(s) - 1))
    ELSE s
\* Faulty variant of strip: only the leading whitespace is removed.
strip_LeftOnly(s) == lstrip(s)
strip(s) == rstrip(lstrip(s))

\* return text if text else None
TextOrNone(text) == IF text # <<>> THEN text ELSE None

\* Faulty variant of the handler: the exception is swallowed without a log.
Except_Silent(log, cause) == log

\* except Exception as e: log.error("Voice transcription failed: %s", e)
Except(log, cause) == Append(log, cause)

\* Faulty variant of the cleanup: the file is never unlinked.
Finally_NoUnlink(fsys, tp) == fsys

\* finally: if tmp_path and tmp_path.exists(): tmp_path.unlink()
Finally(fsys, tp) == IF tp # None /\ tp \in fsys THEN fsys \ {tp} ELSE fsys

\* What the transcription request gives back: an error, an object without a
\* usable text, or a text.
Responses ==
    {[kind |-> "error", text |-> <<>>], [kind |-> "malformed", text |-> <<>>]}
    \cup {[kind |-> "text", text |-> t] : t \in Texts}

\* The code after the download, up to the return: the first step that raises,
\* whether the service was contacted, and the text it returned.
Pipeline(fsys, tp, has_openai, client_ok, resp) ==
    IF tp \notin fsys
    THEN [raised |-> "stat", contacted |-> FALSE, text |-> None]
    ELSE IF ~ has_openai \/ ~ client_ok
    THEN [raised |-> "OpenAI", contacted |-> FALSE, text |-> None]
    ELSE IF tp \notin fsys
    THEN [raised |-> "open", contacted |-> FALSE, text |-> None]
    ELSE IF resp.kind = "error"
    THEN [raised |-> "transcriptions.create", contacted |-> TRUE, text |-> None]
    ELSE IF resp.kind = "malformed"
    THEN [raised |-> "transcript.text", contacted |-> TRUE, text |-> None]
    ELSE [raised |-> "", contacted |-> TRUE, text |-> resp.text]

\* An exception of class Exception leaves the try body of task c at `step`:
\* the handler logs it, the finally clause runs, the task returns None.
Caught(c, step) ==
    /\ failure' = [failure EXCEPT ![c] = step]
    /\ log_error' = [log_error EXCEPT ![c] = Except(@, step)]
    /\ fs' = Finally(fs, tmp_path'[c])
    /\ result' = [result EXCEPT ![c] = None]
    /\ pc' = [pc EXCEPT ![c] = "returned"]

\* The call, up to the first await.
Call(c) ==
    /\ pc[c] = "idle"
    /\ IF KeyMissing(api_key(config))
       THEN /\ pc' = [pc EXCEPT ![c] = "returned"]
            /\ result' = [result EXCEPT ![c] = None]
            /\ UNCHANGED bot_calls
       ELSE /\ pc' = [pc EXCEPT ![c] = "get_file"]
            /\ bot_calls' = [bot_calls EXCEPT ![c] = @ + 1]
            /\ UNCHANGED result
    /\ UNCHANGED <<config, HAS_OPENAI, avail, fs, tmp_path, transcript,
                   failure, log_error, writes, whisper_calls>>

\* await bot.get_file(...) raises.
GetFileFails(c) ==
    /\ pc[c] = "get_file"
    /\ UNCHANGED tmp_path
    /\ Caught(c, "get_file")
    /\ UNCHANGED <<config, HAS_OPENAI, avail, transcript, bot_calls, writes,
                   whisper_calls>>

\* await bot.get_file(...) returns; mktemp chooses the path; the download
\* is started.  mktemp raises FileExistsError when no name is free.
GetFileReturns(c) ==
    /\ pc[c] = "get_file"
    /\ IF mktemp(fs) = {}
       THEN /\ UNCHANGED <<tmp_path, bot_calls>>
            /\ Caught(c, "mktemp")
       ELSE /\ \E tp \in mktemp(fs) : tmp_path' = [tmp_path EXCEPT ![c] = tp]
            /\ bot_calls' = [bot_calls EXCEPT ![c] = @ + 1]
            /\ pc' = [pc EXCEPT ![c] = "download_file"]
            /\ UNCHANGED <<fs, result, failure, log_error>>
    /\ UNCHANGED <<config, HAS_OPENAI, avail, transcript, writes,
                   whisper_calls>>

\* The bot, inside the awaited download, creates the destination file.
DownloadWrites(c) ==
    /\ pc[c] = "download_file"
    /\ writes[c] = 0
    /\ fs' = fs \cup {tmp_path[c]}
    /\ writes' = [writes EXCEPT ![c] = @ + 1]
    /\ UNCHANGED <<config, HAS_OPENAI, avail, pc, tmp_path, result,
                   transcript, failure, log_error, bot_calls, whisper_calls>>

\* await bot.download_file(...) raises, before or after it wrote the file.
DownloadFails(c) ==
    /\ pc[c] = "download_file"
    /\ UNCHANGED tmp_path
    /\ Caught(c, "download_file")
    /\ UNCHANGED <<config, HAS_OPENAI, avail, transcript, bot_calls, writes,
                   whisper_calls>>

\* await bot.download_file(...) returns; the rest of the body runs without
\* giving up control: stat, client construction, open, request, strip, return.
DownloadReturns(c) ==
    /\ pc[c] = "download_file"
    /\ writes[c] = 1
    /\ \E client_ok \in BOOLEAN, resp \in Responses :
         LET run == Pipeline(fs, tmp_path[c], HAS_OPENAI, client_ok, resp) IN
         /\ whisper_calls' =
              [whisper_calls EXCEPT ![c] = IF run.contacted THEN @ + 1 ELSE @]
         /\ UNCHANGED tmp_path
         /\ IF run.raised # ""
            THEN /\ Caught(c, run.raised)
                 /\ UNCHANGED transcript
            ELSE /\ transcript' = [transcript EXCEPT ![c] = run.text]
                 /\ result' = [result EXCEPT ![c] = TextOrNone(strip(run.text))]
                 /\ fs' = Finally(fs, tmp_path[c])
                 /\ pc' = [pc EXCEPT ![c] = "returned"]
                 /\ UNCHANGED <<failure, log_error>>
    /\ UNCHANGED <<config, HAS_OPENAI, avail, bot_calls, writes>>

\* The task is cancelled while it waits: CancelledError is raised at the
\* await.  It is no Exception, so the handler is skipped; the finally clause
\* runs and the error leaves the coroutine.
Cancel(c) ==
    /\ pc[c] \in {"get_file", "download_file"}
    /\ fs' = Finally(fs, tmp_path[c])
    /\ pc' = [pc EXCEPT ![c] = "raised"]
    /\ UNCHANGED <<config, HAS_OPENAI, avail, tmp_path, result, transcript,
                   failure, log_error, bot_calls, writes, whisper_calls>>

----------------------------------------------------------------------------

Init ==
    /\ config \in Configs
    /\ HAS_OPENAI \in BOOLEAN
    /\ avail = [called |-> FALSE, ret |-> FALSE, warnings |-> <<>>]
    /\ fs = {}
    /\ pc = [c \in Calls |-> "idle"]
    /\ tmp_path = [c \in Calls |-> None]
    /\ result = [c \in Calls |-> None]
    /\ transcript = [c \in Calls |-> None]
    /\ failure = [c \in Calls |-> ""]
    /\ log_error = [c \in Calls |-> <<>>]
    /\ bot_calls = [c \in Calls |-> 0]
    /\ writes = [c \in Calls |-> 0]
    /\ whisper_calls = [c \in Calls |-> 0]

Next ==
    \/ IsAvailable
    \/ \E c \in Calls : Call(c)
    \/ \E c \in Calls : GetFileFails(c)
    \/ \E c \in Calls : GetFileReturns(c)
    \/ \E c \in Calls : DownloadWrites(c)
    \/ \E c \in Calls : DownloadFails(c)
    \/ \E c \in Calls : DownloadReturns(c)
    \/ \E c \in Calls : Cancel(c)

Spec == Init /\ [][Next]_vars

----------------------------------------------------------------------------
\* The configuration as the properties read it.

CfgEnabled ==
    /\ "voice" \in DOMAIN config
    /\ "enabled" \in DOMAIN config.voice
    /\ config.voice.enabled = TRUE

CfgKeySet ==
    /\ "voice" \in DOMAIN config
    /\ "openai_api_key" \in DOMAIN config.voice
    /\ Len(config.voice.openai_api_key) > 0

AllWhitespace(t) == \A i \in 1 .. Len(t) : t[i] \in Whitespace

\* Task c passed the download: its try body got at least to the size stat.
PastDownload(c) ==
    /\ pc[c] = "returned"
    /\ CfgKeySet
    /\ failure[c] \notin {"get_file", "mktemp", "download_file"}

----------------------------------------------------------------------------
\* C1: transcribe_voice never raises to its caller: whatever the outcome of
\* each step, cancellation of the awaiting task included, the call ends by
\* returning, never by an exception leaving the coroutine.
C1_NeverRaises == \A c \in Calls : pc[c] # "raised"

\* C2: at the moment a call ends, on any exit path, the temporary file path
\* that call chose does not exist on the filesystem.
C2_NoFileAtExit ==
    [][\A c \in Calls :
          (pc[c] \notin Ended /\ pc'[c] \in Ended /\ tmp_path'[c] # None)
              => tmp_path'[c] \notin fs']_vars

\* A call whose download wrote the file and whose transcription request
\* failed has returned, alone, and its file is gone.
C2_Witness ==
    \E c \in Calls :
        /\ pc[c] = "returned"
        /\ writes[c] = 1
        /\ failure[c] = "transcriptions.create"
        /\ tmp_path[c] \notin fs
        /\ \A d \in Calls \ {c} : pc[d] = "idle"

\* C3: two calls in flight at the same time hold different temporary file
\* paths.
C3_DistinctPaths ==
    \A c, d \in Calls :
        (c # d /\ pc[c] = "download_file" /\ pc[d] = "download_file")
            => tmp_path[c] # tmp_path[d]

\* C4: is_available returns true exactly when voice.enabled is true, the
\* client library was loadable and voice.openai_api_key is a non-empty value;
\* a missing section or field counts as disabled / key absent.
C4_AvailableIff ==
    avail.called => (avail.ret <=> (CfgEnabled /\ HAS_OPENAI /\ CfgKeySet))

C4_Witness == avail.called /\ avail.ret /\ CfgEnabled /\ HAS_OPENAI /\ CfgKeySet

\* C5: is_available emits at most one warning per call, that of the first
\* failing check in the order enabled, dependency, API key; none when
\* disabled or when every check passes.
C5_OneWarningFirstFailure ==
    avail.called =>
        /\ Len(avail.warnings) <= 1
        /\ (~ CfgEnabled => avail.warnings = <<>>)
        /\ (avail.ret => avail.warnings = <<>>)
        /\ ((CfgEnabled /\ ~ HAS_OPENAI)
               => avail.warnings = <<"pip3 install openai">>)
        /\ ((CfgEnabled /\ HAS_OPENAI /\ ~ CfgKeySet)
               => avail.warnings =
                    <<"conductor.telegram.voice.openai_api_key not set">>)

\* Enabled, package absent and key missing too: the one warning is the
\* installation warning.
C5_Witness ==
    /\ avail.called
    /\ CfgEnabled /\ ~ HAS_OPENAI /\ ~ CfgKeySet
    /\ avail.warnings = <<"pip3 install openai">>

\* C6: the value returned is None or a non-empty string without leading or
\* trailing whitespace; when the service returned text t it is t without its
\* leading and trailing whitespace, or None when nothing is left.
C6_TrimmedOrAbsent ==
    \A c \in Calls :
        pc[c] = "returned" =>
            /\ (result[c] # None =>
                    /\ Len(result[c]) > 0
                    /\ result[c][1] \notin Whitespace
                    /\ result[c][Len(result[c])] \notin Whitespace)
            /\ (transcript[c] # None =>
                    LET t == transcript[c] IN
                    IF AllWhitespace(t)
                    THEN result[c] = None
                    ELSE \E i, j \in 1 .. Len(t) :
                            /\ i <= j
                            /\ AllWhitespace(SubSeq(t, 1, i - 1))
                            /\ AllWhitespace(SubSeq(t, j + 1, Len(t)))
                            /\ t[i] \notin Whitespace
                            /\ t[j] \notin Whitespace
                            /\ result[c] = SubSeq(t, i, j))

\* The service returned " a " and the call returned "a".
C6_Witness ==
    \E c \in Calls :
        /\ pc[c] = "returned"
        /\ transcript[c] = <<" ", "a", " ">>
        /\ result[c] = <<"a">>

\* C7: with an empty or absent API key a call returns None at once and has
\* no effect: no bot method is called, no path is acquired, no file is
\* written, the service is not contacted, no error is logged.
C7_NoKeyNoEffect ==
    ~ CfgKeySet =>
        /\ fs = {}
        /\ \A c \in Calls :
              /\ pc[c] \in {"idle", "returned"}
              /\ result[c] = None
              /\ tmp_path[c] = None
              /\ bot_calls[c] = 0
              /\ writes[c] = 0
              /\ whisper_calls[c] = 0
              /\ log_error[c] = <<>>

C7_Witness == ~ CfgKeySet /\ \E c \in Calls : pc[c] = "returned"

\* C8: a call that returns after a failure of a step of the pipeline returns
\* None and has logged exactly one error, which carries that cause; a call
\* that returns without failure (a transcript, or an empty one) has logged
\* no error.
C8_OneErrorPerFailure ==
    \A c \in Calls :
        pc[c] = "returned" =>
            /\ (failure[c] # "" =>
                    result[c] = None /\ log_error[c] = <<failure[c]>>)
            /\ (failure[c] = "" => log_error[c] = <<>>)
            /\ ((transcript[c] # None /\ AllWhitespace(transcript[c]))
                   => result[c] = None /\ log_error[c] = <<>>)

\* A failed download, and next to it a call with an empty transcript.
C8_Witness ==
    \E c, d \in Calls :
        /\ pc[c] = "returned" /\ failure[c] = "download_file"
        /\ log_error[c] = <<"download_file">>
        /\ pc[d] = "returned" /\ transcript[d] = <<" ">>
        /\ log_error[d] = <<>>

\* C9 as stated: every call writes exactly one temporary file.
C9_ExactlyOneFile == \A c \in Calls : pc[c] \in Ended => writes[c] = 1

\* C9 as amended: a call writes at most one temporary file, under a path with
\* the .ogg suffix: none when it returns early for lack of a key or stops
\* before the download wrote, one when it got past the download; and a path
\* once acquired does not exist when the call ends.
C9_AtMostOneFile ==
    [][\A c \in Calls :
          (pc[c] \notin Ended /\ pc'[c] \in Ended) =>
              /\ writes'[c] <= 1
              /\ (~ CfgKeySet => writes'[c] = 0 /\ tmp_path'[c] = None)
              /\ (failure'[c] \in {"get_file", "mktemp"} => writes'[c] = 0)
              /\ (PastDownload(c)' => writes'[c] = 1)
              /\ (tmp_path'[c] # None =>
                      /\ tmp_path'[c][3] = ".ogg"
                      /\ tmp_path'[c] \notin fs')]_vars

\* One call got past the download with its one file, another ended at the
\* metadata fetch with none.
C9_Witness ==
    \E c, d \in Calls :
        /\ PastDownload(c) /\ writes[c] = 1 /\ tmp_path[c] \notin fs
        /\ pc[d] = "returned" /\ failure[d] = "get_file" /\ writes[d] = 0

\* C10: with a non-empty key and the client library absent, a call whose
\* fetch and download succeed has downloaded the attachment, fails at client
\* construction, returns None with one error log and never contacts the
\* transcription service.
C10_FailsAtClientConstruction ==
    \A c \in Calls :
        (PastDownload(c) /\ ~ HAS_OPENAI) =>
            /\ writes[c] = 1
            /\ bot_calls[c] = 2
            /\ failure[c] = "OpenAI"
            /\ result[c] = None
            /\ log_error[c] = <<"OpenAI">>
            /\ whisper_calls[c] = 0

====
